---- MODULE Spec2Model ----
(***************************************************************************)
(* A state-machine model of pymer4's Lmer class (pymer4/models/Lmer.py)    *)
(* and of the helpers of pymer4/utils.py it calls.  The R engine (lme4,    *)
(* lmerTest, confint) is the environment: each call into R takes its       *)
(* result from a record r chosen from a small set.                         *)
(***************************************************************************)
EXTENDS Integers, Sequences, FiniteSets, TLC

VARIABLES
    self,   \* the Lmer object: one field per attribute the model tracks
    heap,   \* the DataFrame objects: heap.caller is the caller's frame, heap.model the copy
    given,  \* the caller's frame as it was when it was passed to the constructor
    last    \* the last call: its name, arguments, R results, exception raised and value returned

vars == <<self, heap, given, last>>

(***************************************************************************)
(* Bounds                                                                  *)
(***************************************************************************)
MaxWarn == 3    \* longest warnings list explored
MaxRows == 1    \* most fixed effects (rows of R's coefficient table)

(***************************************************************************)
(* Python values                                                           *)
(***************************************************************************)
PyFalse == [t |-> "bool", v |-> 0]
PyTrue == [t |-> "bool", v |-> 1]
PyNone == [t |-> "NoneType", v |-> 0]
PyInt(n) == [t |-> "int", v |-> n]
\* Python truthiness of a bool, None or int
Truthy(p) == p.v # 0

NaN == -1       \* the missing value; every real cell value is >= 0

SeqToSet(s) == {s[i] : i \in DOMAIN s}
Contains(s, e) == \E i \in DOMAIN s : s[i] = e
IndexOf(s, e) == CHOOSE i \in DOMAIN s : s[i] = e /\ \A j \in 1..(i - 1) : s[j] # e
Abs(n) == IF n < 0 THEN -n ELSE n

(***************************************************************************)
(* str() of a cell value and the order sorted() puts strings in.  A string *)
(* is a sequence of one-character strings.                                 *)
(***************************************************************************)
Digit(d) ==
    CASE d = 0 -> "0" [] d = 1 -> "1" [] d = 2 -> "2" [] d = 3 -> "3" [] d = 4 -> "4"
      [] d = 5 -> "5" [] d = 6 -> "6" [] d = 7 -> "7" [] d = 8 -> "8" [] d = 9 -> "9"

RECURSIVE Str(_)
Str(n) ==
    IF n = NaN THEN <<"n", "a", "n">>
    ELSE IF n < 10 THEN <<Digit(n)>>
    ELSE Append(Str(n \div 10), Digit(n % 10))

\* code point of a character
Ord(c) ==
    CASE c = "0" -> 48 [] c = "1" -> 49 [] c = "2" -> 50 [] c = "3" -> 51 [] c = "4" -> 52
      [] c = "5" -> 53 [] c = "6" -> 54 [] c = "7" -> 55 [] c = "8" -> 56 [] c = "9" -> 57
      [] c = "a" -> 97 [] c = "n" -> 110

\* Python's < on str: lexicographic by code point
RECURSIVE StrLess(_, _)
StrLess(s, t) ==
    IF t = <<>> THEN FALSE
    ELSE IF s = <<>> THEN TRUE
    ELSE IF Ord(Head(s)) # Ord(Head(t)) THEN Ord(Head(s)) < Ord(Head(t))
    ELSE StrLess(Tail(s), Tail(t))

\* insert e into the sorted list s, after the elements equal to it
RECURSIVE Insert(_, _)
Insert(s, e) ==
    IF s = <<>> THEN <<e>>
    ELSE IF StrLess(e, Head(s)) THEN <<e>> \o s
    ELSE <<Head(s)>> \o Insert(Tail(s), e)

\* sorted(list of str)
RECURSIVE sorted(_)
sorted(s) == IF s = <<>> THEN <<>> ELSE Insert(sorted(SubSeq(s, 1, Len(s) - 1)), s[Len(s)])

\* Series.unique(): the distinct values in order of first appearance
RECURSIVE unique(_)
unique(s) ==
    IF s = <<>> THEN <<>>
    ELSE LET u == unique(SubSeq(s, 1, Len(s) - 1))
         IN  IF Contains(u, s[Len(s)]) THEN u ELSE Append(u, s[Len(s)])

(***************************************************************************)
(* pandas DataFrames of the model's data.  columns is the column order,    *)
(* vals[i] the values of column i, strcols the columns of str dtype, fac   *)
(* the columns R holds as factors (levels, ordered).                       *)
(***************************************************************************)
NoFac == [k \in {} |-> <<>>]

HasCol(df, c) == Contains(df.columns, c)
Col(df, c) == df.vals[IndexOf(df.columns, c)]
NumRows(df) == IF df.columns = <<>> THEN 0 ELSE Len(df.vals[1])

\* df[c] = v
SetCol(df, c, v) ==
    IF HasCol(df, c)
    THEN [df EXCEPT !.vals[IndexOf(df.columns, c)] = v]
    ELSE [df EXCEPT !.columns = Append(df.columns, c), !.vals = Append(df.vals, v)]

\* the model formula "y ~ x + (1|g)" as fit() and _to_ranks_by_group read it
DV == "y"
Predictors == <<"x">>
Group == "g"

FrameA ==
    [columns |-> <<"y", "x", "g">>,
     vals |-> << <<3, 1, 2>>, <<10, 2, 10>>, <<1, 1, 2>> >>,
     strcols |-> {}, fac |-> NoFac]

\* a frame with a missing response
FrameNaN == [FrameA EXCEPT !.vals[1] = <<3, NaN, 2>>]

\* a frame that already has a column called fits
FrameFits ==
    [FrameA EXCEPT !.columns = <<"y", "x", "g", "fits">>,
                   !.vals = << <<3, 1, 2>>, <<10, 2, 10>>, <<1, 1, 2>>, <<7, 8, 9>> >>]

Frames == {FrameA, FrameNaN, FrameFits}

\* rows R keeps: lme4 drops the rows with a missing value in a model variable
CompleteRows(df) ==
    {i \in 1..NumRows(df) :
        \A c \in {DV, Group} \cup SeqToSet(Predictors) : Col(df, c)[i] # NaN}

(***************************************************************************)
(* utils._to_ranks_by_group.  Ranks are pandas' average ranks, stored      *)
(* doubled so that the rank of tied values stays an integer; a missing     *)
(* value keeps no rank.                                                    *)
(***************************************************************************)
GroupRank(col, grp, i) ==
    IF col[i] = NaN THEN NaN
    ELSE LET same == {j \in DOMAIN col : grp[j] = grp[i] /\ col[j] # NaN}
         IN  2 * Cardinality({j \in same : col[j] < col[i]})
               + Cardinality({j \in same : col[j] = col[i]}) + 1

\* the columns of the formula that are converted: predictors, then the response
ToRank(exclude_cols) ==
    SelectSeq(Append(Predictors, DV), LAMBDA c : ~Contains(exclude_cols, c))

_to_ranks_by_group(dat, group, exclude_cols) ==
    IF ~HasCol(dat, group) \/ \E c \in SeqToSet(ToRank(exclude_cols)) : ~HasCol(dat, c)
    THEN [exc |-> "KeyError", df |-> dat]
    ELSE [exc |-> "",
          df |-> [dat EXCEPT !.vals =
                    [i \in DOMAIN dat.columns |->
                        IF Contains(ToRank(exclude_cols), dat.columns[i])
                        THEN [n \in DOMAIN dat.vals[i] |->
                                GroupRank(dat.vals[i], Col(dat, group), n)]
                        ELSE dat.vals[i]]]]

(***************************************************************************)
(* Lmer._make_factors: works on a copy of the model's data, turns each key *)
(* column to str and lets R make it a factor with the given levels.        *)
(***************************************************************************)
_make_factors(h, ref, factor_dict, ordered) ==
    IF \E k \in DOMAIN factor_dict : ~HasCol(h[ref], k)
    THEN [exc |-> "KeyError", heap |-> h, df |-> h[ref]]
    ELSE [exc |-> "", heap |-> h,
          df |-> [h[ref] EXCEPT
                    !.strcols = @ \cup DOMAIN factor_dict,
                    !.fac = [k \in DOMAIN factor_dict |->
                                [levels |-> factor_dict[k], ordered |-> ordered]]]]

(***************************************************************************)
(* utils._sig_stars and utils._perm_find.  A p-value is held in            *)
(* thousandths, rounded down, which keeps every comparison of _sig_stars.  *)
(***************************************************************************)
_sig_stars(val) ==
    IF 0 <= val /\ val < 1 THEN "***"
    ELSE IF 1 <= val /\ val < 10 THEN "**"
    ELSE IF 10 <= val /\ val < 50 THEN "*"
    ELSE IF 50 <= val /\ val < 100 THEN "."
    ELSE ""

_perm_find(arr, x) ==
    ((Cardinality({i \in DOMAIN arr : Abs(arr[i]) >= Abs(x)}) + 1) * 1000) \div (Len(arr) + 1)

(***************************************************************************)
(* Result tables (pandas DataFrames built from R's output): columns is the *)
(* column order and data[i][j] the cell of row i in column j.              *)
(***************************************************************************)
NoneTable == [none |-> TRUE, columns |-> <<>>, data |-> <<>>]

THas(t, c) == Contains(t.columns, c)
TCol(t, c) == [i \in DOMAIN t.data |-> t.data[i][IndexOf(t.columns, c)]]

\* df = df[cols]
TSelect(t, cols) ==
    [t EXCEPT !.columns = cols,
              !.data = [i \in DOMAIN t.data |->
                          [j \in DOMAIN cols |-> t.data[i][IndexOf(t.columns, cols[j])]]]]

\* df[c] = v
TAssign(t, c, v) ==
    IF THas(t, c)
    THEN [t EXCEPT !.data = [i \in DOMAIN t.data |->
                               [t.data[i] EXCEPT ![IndexOf(t.columns, c)] = v[i]]]]
    ELSE [t EXCEPT !.columns = Append(t.columns, c),
                   !.data = [i \in DOMAIN t.data |-> Append(t.data[i], v[i])]]

\* df.rename(columns={old: new})
TRename(t, old, new) ==
    [t EXCEPT !.columns = [j \in DOMAIN t.columns |->
                             IF t.columns[j] = old THEN new ELSE t.columns[j]]]

\* df.drop(columns=cols), every one of cols being a column
TDrop(t, cols) ==
    TSelect(t, SelectSeq(t.columns, LAMBDA c : c \notin cols))

(***************************************************************************)
(* The R side.  A call of fit() draws a record r: where R raises (fail),   *)
(* the optimizer warnings and messages (warnings), whether lmerTest gave   *)
(* up on the p-values (choked), one entry of rows per fixed effect, the    *)
(* t-statistic of the permuted fits (perm_t).                              *)
(***************************************************************************)
RowA == [p |-> 0, lo |-> 1, hi |-> 2, t |-> 9]
RowB == [p |-> 30, lo |-> -1, hi |-> 3, t |-> 4]
RowKinds == {RowA, RowB}

\* the column names of data.frame(cbind(out.coef, out.ci)) and of the binomial extras
RColumns(family, choked) ==
    IF family = "gaussian"
    THEN IF choked
         THEN <<"Estimate", "Std..Error", "t.value", "X2.5..", "X97.5..">>
         ELSE <<"Estimate", "Std..Error", "df", "t.value", "Pr...t..", "X2.5..", "X97.5..">>
    ELSE IF family \in {"gamma", "inverse_gaussian"}
    THEN <<"Estimate", "Std..Error", "t.value", "Pr...t..", "X2.5..", "X97.5..">>
    ELSE IF family = "poisson"
    THEN <<"Estimate", "Std..Error", "z.value", "Pr...z..", "X2.5..", "X97.5..">>
    ELSE <<"Estimate", "Std..Error", "z.value", "Pr...z..", "X2.5..", "X97.5..",
           "OR", "OR_2.5_ci", "OR_97.5_ci", "Prob", "Prob_2.5_ci", "Prob_97.5_ci">>

RCell(name, k) ==
    CASE name = "Estimate" -> 101
      [] name = "Std..Error" -> 201
      [] name = "df" -> 301
      [] name \in {"t.value", "z.value"} -> k.t
      [] name \in {"Pr...t..", "Pr...z.."} -> k.p
      [] name = "X2.5.." -> k.lo
      [] name = "X97.5.." -> k.hi
      [] name = "OR" -> 401
      [] name = "OR_2.5_ci" -> 402
      [] name = "OR_97.5_ci" -> 403
      [] name = "Prob" -> 501
      [] name = "Prob_2.5_ci" -> 502
      [] name = "Prob_97.5_ci" -> 503

\* what estimates_func returns for the model
ROut(family, r) ==
    LET cols == RColumns(family, r.choked)
    IN  [none |-> FALSE, columns |-> cols,
         data |-> [i \in DOMAIN r.rows |-> [j \in DOMAIN cols |-> RCell(cols[j], r.rows[i])]]]

(***************************************************************************)
(* fit(): the coefficient table (Lmer.py 441-631)                          *)
(***************************************************************************)
\* df.columns = names; df = df[order]
Named(df, names, order) == TSelect([df EXCEPT !.columns = names], order)

\* name_columns with the poisson table given the names of the gamma one
name_columns_no_poisson(family, permute, df) ==
    IF family \in {"gaussian", "gamma", "inverse_gaussian", "poisson"}
    THEN IF Len(df.columns) = 7
         THEN Named(df, <<"Estimate", "SE", "DF", "T-stat", "P-val", "2.5_ci", "97.5_ci">>,
                    <<"Estimate", "2.5_ci", "97.5_ci", "SE", "DF", "T-stat", "P-val">>)
         ELSE IF Len(df.columns) = 6
         THEN Named(df, <<"Estimate", "SE", "T-stat", "P-val", "2.5_ci", "97.5_ci">>,
                    <<"Estimate", "2.5_ci", "97.5_ci", "SE", "T-stat", "P-val">>)
         ELSE IF Len(df.columns) = 5 /\ family = "gaussian" /\ ~Truthy(permute)
         THEN Named(df, <<"Estimate", "SE", "T-stat", "2.5_ci", "97.5_ci">>,
                    <<"Estimate", "2.5_ci", "97.5_ci", "SE", "T-stat">>)
         ELSE df
    ELSE Named(df, <<"Estimate", "SE", "Z-stat", "P-val", "2.5_ci", "97.5_ci",
                     "OR", "OR_2.5_ci", "OR_97.5_ci", "Prob", "Prob_2.5_ci", "Prob_97.5_ci">>,
               <<"Estimate", "2.5_ci", "97.5_ci", "SE",
                 "OR", "OR_2.5_ci", "OR_97.5_ci", "Prob", "Prob_2.5_ci", "Prob_97.5_ci",
                 "Z-stat", "P-val">>)

\* lines 441-577: name R's columns by position and put them in pymer4's order
name_columns(family, permute, df) ==
    IF family \in {"gaussian", "gamma", "inverse_gaussian", "poisson"}
    THEN IF Len(df.columns) = 7
         THEN Named(df, <<"Estimate", "SE", "DF", "T-stat", "P-val", "2.5_ci", "97.5_ci">>,
                    <<"Estimate", "2.5_ci", "97.5_ci", "SE", "DF", "T-stat", "P-val">>)
         ELSE IF Len(df.columns) = 6
         THEN IF family \in {"gamma", "inverse_gaussian"}
              THEN Named(df, <<"Estimate", "SE", "T-stat", "P-val", "2.5_ci", "97.5_ci">>,
                         <<"Estimate", "2.5_ci", "97.5_ci", "SE", "T-stat", "P-val">>)
              ELSE Named(df, <<"Estimate", "SE", "Z-stat", "P-val", "2.5_ci", "97.5_ci">>,
                         <<"Estimate", "2.5_ci", "97.5_ci", "SE", "Z-stat", "P-val">>)
         ELSE IF Len(df.columns) = 5 /\ family = "gaussian"
         THEN IF ~Truthy(permute)
              THEN Named(df, <<"Estimate", "SE", "T-stat", "2.5_ci", "97.5_ci">>,
                         <<"Estimate", "2.5_ci", "97.5_ci", "SE", "T-stat">>)
              ELSE df
         ELSE df
    ELSE Named(df, <<"Estimate", "SE", "Z-stat", "P-val", "2.5_ci", "97.5_ci",
                     "OR", "OR_2.5_ci", "OR_97.5_ci", "Prob", "Prob_2.5_ci", "Prob_97.5_ci">>,
               <<"Estimate", "2.5_ci", "97.5_ci", "SE",
                 "OR", "OR_2.5_ci", "OR_97.5_ci", "Prob", "Prob_2.5_ci", "Prob_97.5_ci",
                 "Z-stat", "P-val">>)

\* lines 579-608: the permutation p-values replace the parametric ones
permute_pvals(family, permute, r, df) ==
    LET stat == IF family \in {"gaussian", "gamma", "inverse_gaussian"} THEN "T-stat" ELSE "Z-stat"
        perms == [i \in 1..permute.v |-> [c \in DOMAIN df.data |-> r.perm_t]]
        nperm == [c \in DOMAIN df.data |-> permute.v]
    IN  IF ~THas(df, stat) THEN [exc |-> "KeyError", df |-> df]
        ELSE LET pvals == [c \in DOMAIN df.data |->
                              _perm_find([i \in 1..permute.v |-> perms[i][c]], TCol(df, stat)[c])]
                 d1 == TAssign(df, "P-val", pvals)
             IN  [exc |-> "",
                  df |-> IF THas(d1, "DF")
                         THEN TRename(TRename(TAssign(d1, "DF", nperm), "DF", "Num_perm"),
                                      "P-val", "Perm-P-val")
                         ELSE TRename(TAssign(d1, "Num_perm", nperm), "P-val", "Perm-P-val")]

\* lines 610-613
add_sig(df) ==
    IF THas(df, "P-val")
    THEN TAssign(df, "Sig", [i \in DOMAIN df.data |-> _sig_stars(TCol(df, "P-val")[i])])
    ELSE IF THas(df, "Perm-P-val")
    THEN TAssign(df, "Sig", [i \in DOMAIN df.data |-> _sig_stars(TCol(df, "Perm-P-val")[i])])
    ELSE df

\* line 615
boot_branch(conf_int, permute) == conf_int = "boot" /\ permute = PyNone

\* lines 615-622: significance from the bootstrapped interval
boot_sig(conf_int, permute, df) ==
    IF boot_branch(conf_int, permute)
    THEN IF ~THas(df, "P-val") \/ ~THas(df, "Sig") THEN [exc |-> "KeyError", df |-> df]
         ELSE LET d1 == TDrop(df, {"P-val", "Sig"})
                  d2 == IF THas(d1, "DF") THEN TDrop(d1, {"DF"}) ELSE d1
              IN  [exc |-> "",
                   df |-> TAssign(d2, "Sig",
                            [i \in DOMAIN d2.data |->
                                IF TCol(d2, "2.5_ci")[i] * TCol(d2, "97.5_ci")[i] > 0
                                THEN "*" ELSE ""])]
    ELSE [exc |-> "", df |-> df]

\* lines 624-629
place_num_perm(family, permute, df) ==
    IF Truthy(permute) /\ family # "gaussian"
    THEN LET cols == df.columns
             n == Len(cols)
         IN  TSelect(df, SubSeq(cols, 1, n - 4) \o <<"Num_perm">>
                           \o SubSeq(cols, n - 3, n - 2) \o <<cols[n]>>)
    ELSE df

coef_table(family, conf_int, permute, r) ==
    LET named == name_columns(family, permute, ROut(family, r))
        pm == IF Truthy(permute) THEN permute_pvals(family, permute, r, named)
              ELSE [exc |-> "", df |-> named]
    IN  IF pm.exc # "" THEN pm
        ELSE LET bs == boot_sig(conf_int, permute, add_sig(pm.df))
             IN  IF bs.exc # "" THEN bs
                 ELSE [exc |-> "", df |-> place_num_perm(family, permute, bs.df)]

(***************************************************************************)
(* The Lmer object                                                         *)
(***************************************************************************)
implemented_fams == {"gaussian", "binomial", "gamma", "inverse_gaussian", "poisson"}

NoDict == [k \in {} |-> <<>>]   \* None, for the attributes that hold None or a non-empty dict
NoneObj == [none |-> TRUE]
Unset == [t |-> "unset", v |-> 0]   \* an attribute no call has assigned yet

\* an assignment that keeps the caller's object instead of copying it
alias(ref) == ref

\* the frame a copy of the caller's frame lives in (copy(data) makes a new object)
copy(ref) == "model"

\* Lmer.__init__, lines 59-93
__init__(family, data) ==
    [family |-> family, fitted |-> FALSE, data |-> copy(data), warnings |-> <<>>,
     coefs |-> NoneTable, model_obj |-> NoneObj, factors |-> NoDict,
     factors_prev_ |-> NoDict, _permute |-> Unset, _conf_int |-> "unset", _REML |-> Unset]

\* the signature defaults of fit(), lines 250-266
DefaultArgs ==
    [conf_int |-> "Wald", factors |-> NoDict, permute |-> PyFalse, ordered |-> FALSE,
     summarize |-> TRUE, REML |-> PyTrue, rank |-> FALSE, rank_group |-> "",
     rank_exclude_cols |-> <<>>, no_warnings |-> FALSE, control |-> "",
     old_optimizer |-> FALSE]

\* R results of a call that never reaches R
NoR ==
    [fail |-> "", warnings |-> <<>>, choked |-> FALSE, rows |-> <<>>, perm_t |-> 0]

FactorRankWarning == "Factors and ranks requested, but factors are not excluded from rank conversion. Are you sure you wanted to do this?"

Raise(s, h, e) == [self |-> s, heap |-> h, exc |-> e, ret |-> "nothing"]
Return(s, h, v) == [self |-> s, heap |-> h, exc |-> "", ret |-> v]

\* Lmer.summary, lines 838-868
summary(s, h) ==
    IF ~s.fitted THEN Raise(s, h, "RuntimeError")
    ELSE IF s.coefs.none THEN Return(s, h, "None")
    ELSE Return(s, h, "DataFrame")

\* the family name handed to R, lines 357-382
_fam(family) ==
    IF family = "inverse_gaussian" THEN "inverse.gaussian"
    ELSE IF family = "gamma" THEN "Gamma"
    ELSE family

\* lines 715-745: residuals and fits are copied into the model's data when they fit its index
add_columns(h, ref, nkept) ==
    LET d1 == IF nkept = NumRows(h[ref])
              THEN SetCol(h[ref], "residuals", [i \in 1..nkept |-> 100 + i])
              ELSE h[ref]
        d2 == IF nkept = NumRows(d1)
              THEN SetCol(d1, "fits", [i \in 1..nkept |-> 200 + i])
              ELSE d1
    IN  [h EXCEPT ![ref] = d2]

\* lines 388-748: from the R fit to the return
fit_model(s, h, a, r, control, dat) ==
    IF r.fail = "model" THEN Raise(s, h, "RRuntimeError")
    ELSE
    LET s1 == [s EXCEPT !.model_obj =
                  [none |-> FALSE, fam |-> _fam(s.family), dat |-> dat, control |-> control,
                   REML |-> IF s.family = "gaussian" THEN a.REML ELSE Unset]]
        s2 == IF r.warnings # <<>>
              THEN [s1 EXCEPT !.warnings = @ \o r.warnings]
              ELSE [s1 EXCEPT !.warnings = <<>>]
        ct == IF r.rows # <<>>
              THEN IF r.fail = "confint" THEN [exc |-> "RRuntimeError", df |-> NoneTable]
                   ELSE coef_table(s.family, a.conf_int, a.permute, r)
              ELSE [exc |-> "", df |-> NoneTable]
    IN  IF ct.exc # "" THEN Raise(s2, h, ct.exc)
        ELSE
        LET s3 == [s2 EXCEPT !.coefs = ct.df, !.fitted = TRUE]
        IN  IF r.fail = "ranef" THEN Raise(s3, h, "RRuntimeError")
            ELSE
            LET h1 == add_columns(h, s3.data, Cardinality(CompleteRows(dat)))
            IN  IF a.summarize THEN summary(s3, h1) ELSE Return(s3, h1, "None")

\* fit_data with the rank conversion written back to the model's data
fit_data_rank_in_place(s, h, a, r, control) ==
    LET mf == IF a.factors # NoDict
              THEN _make_factors(h, s.data, a.factors, a.ordered)
              ELSE [exc |-> "", heap |-> h, df |-> h[s.data]]
    IN  IF mf.exc # "" THEN Raise(s, mf.heap, mf.exc)
        ELSE
        LET s1 == IF a.factors # NoDict THEN [s EXCEPT !.factors = a.factors] ELSE s
            h1 == mf.heap
        IN  IF a.rank
            THEN IF a.rank_group = "" THEN Raise(s1, h1, "ValueError")
                 ELSE
                 LET rk == _to_ranks_by_group(h1[s1.data], a.rank_group, a.rank_exclude_cols)
                     s2 == IF a.factors # NoDict
                              /\ DOMAIN a.factors # SeqToSet(a.rank_exclude_cols)
                           THEN [s1 EXCEPT !.warnings = Append(@, FactorRankWarning)]
                           ELSE s1
                 IN  IF rk.exc # "" THEN Raise(s1, h1, rk.exc)
                     ELSE fit_model(s2, [h1 EXCEPT ![s1.data] = rk.df], a, r, control, rk.df)
            ELSE fit_model(s1, h1, a, r, control, mf.df)

\* lines 335-349: the data handed to R
fit_data(s, h, a, r, control) ==
    LET mf == IF a.factors # NoDict
              THEN _make_factors(h, s.data, a.factors, a.ordered)
              ELSE [exc |-> "", heap |-> h, df |-> h[s.data]]
    IN  IF mf.exc # "" THEN Raise(s, mf.heap, mf.exc)
        ELSE
        LET s1 == IF a.factors # NoDict THEN [s EXCEPT !.factors = a.factors] ELSE s
            h1 == mf.heap
        IN  IF a.rank
            THEN IF a.rank_group = "" THEN Raise(s1, h1, "ValueError")
                 ELSE
                 LET rk == _to_ranks_by_group(h1[s1.data], a.rank_group, a.rank_exclude_cols)
                     s2 == IF a.factors # NoDict
                              /\ DOMAIN a.factors # SeqToSet(a.rank_exclude_cols)
                           THEN [s1 EXCEPT !.warnings = Append(@, FactorRankWarning)]
                           ELSE s1
                 IN  IF rk.exc # "" THEN Raise(s1, h1, rk.exc)
                     ELSE fit_model(s2, h1, a, r, control, rk.df)
            ELSE fit_model(s1, h1, a, r, control, mf.df)

\* Lmer.fit, lines 250-748
fit(s, h, a, r) ==
    LET s1 == [s EXCEPT !._permute = a.permute, !._conf_int = a.conf_int, !._REML = a.REML]
    IN  IF a.permute = PyTrue THEN Raise(s1, h, "TypeError")
        ELSE IF a.old_optimizer /\ a.control # "" THEN Raise(s1, h, "ValueError")
        ELSE fit_data(s1, h, a, r, IF a.old_optimizer THEN "optimizer='bobyqa'" ELSE a.control)

\* the arguments _refit_orthogonal passes to fit(), lines 158-168
refit_args(s, h) ==
    [DefaultArgs EXCEPT
        !.factors = [k \in DOMAIN s.factors |->
                        sorted([i \in DOMAIN unique(Col(h[s.data], k)) |->
                                   Str(unique(Col(h[s.data], k))[i])])],
        !.ordered = TRUE, !.summarize = FALSE,
        !.permute = s._permute, !.conf_int = s._conf_int, !.REML = s._REML]

\* Lmer._refit_orthogonal, lines 151-168
_refit_orthogonal(s, h, r) ==
    fit([s EXCEPT !.factors_prev_ = s.factors], h, refit_args(s, h), r)

\* lines 188-221: R's anova() on the stored model object
anova_table(s, h, r) ==
    IF s.model_obj = NoneObj \/ r.fail = "anova" THEN Raise(s, h, "RRuntimeError")
    ELSE Return(s, h, "DataFrame")

\* Lmer.anova, lines 170-221
anova(s, h, force_orthogonal, r) ==
    IF s.factors # NoDict
    THEN IF force_orthogonal
         THEN LET rf == _refit_orthogonal(s, h, r)
              IN  IF rf.exc # "" THEN rf ELSE anova_table(rf.self, rf.heap, r)
         ELSE anova_table(s, h, r)
    ELSE IF ~s.fitted THEN Raise(s, h, "ValueError")
    ELSE anova_table(s, h, r)

\* Lmer.post_hoc, lines 870-1147, with marginal_vars and grouping_vars a str ("" when not given)
post_hoc(s, h, marginal_vars, grouping_vars, r) ==
    IF marginal_vars = "" THEN Raise(s, h, "ValueError")
    ELSE IF ~s.fitted THEN Raise(s, h, "RuntimeError")
    ELSE IF grouping_vars # "" /\ s.factors = NoDict THEN Raise(s, h, "AttributeError")
    ELSE IF grouping_vars # "" /\ grouping_vars \notin DOMAIN s.factors
    THEN Raise(s, h, "ValueError")
    ELSE IF marginal_vars \notin DOMAIN s.factors /\ grouping_vars = ""
    THEN Raise(s, h, "ValueError")
    ELSE IF r.fail = "emmeans" THEN Raise(s, h, "RRuntimeError")
    ELSE Return(s, h, "tuple")

\* Lmer.plot_summary, lines 1149-1258
plot_summary(s, h, orient) ==
    IF ~s.fitted THEN Raise(s, h, "RuntimeError")
    ELSE IF orient \notin {"h", "v"} THEN Raise(s, h, "ValueError")
    ELSE IF s.coefs.none THEN Raise(s, h, "TypeError")
    ELSE Return(s, h, "Axes")

\* plot() with the factors test moved ahead of the fitted test
plot_factors_first(s, h, param) ==
    IF s.factors # NoDict THEN Raise(s, h, "NotImplementedError")
    ELSE IF ~s.fitted THEN Raise(s, h, "RuntimeError")
    ELSE IF s.coefs.none THEN Raise(s, h, "IndexError")
    ELSE IF param \notin SeqToSet(Predictors) THEN Raise(s, h, "KeyError")
    ELSE Return(s, h, "Axes")

\* Lmer.plot, lines 1260-1372
plot(s, h, param) ==
    IF ~s.fitted THEN Raise(s, h, "RuntimeError")
    ELSE IF s.factors # NoDict THEN Raise(s, h, "NotImplementedError")
    ELSE IF s.coefs.none THEN Raise(s, h, "IndexError")
    ELSE IF param \notin SeqToSet(Predictors) THEN Raise(s, h, "KeyError")
    ELSE Return(s, h, "Axes")

(***************************************************************************)
(* Actions: one per public call                                            *)
(***************************************************************************)
\* what the call found: the fitted flag at its start
Pre == [fitted |-> self.fitted]

Apply(res, op, a, r, x) ==
    /\ self' = res.self
    /\ heap' = res.heap
    /\ given' = IF op = "__init__" /\ res.exc = "" THEN res.heap.caller ELSE given
    /\ last' = [op |-> op, a |-> a, r |-> r, x |-> x, exc |-> res.exc, ret |-> res.ret,
                pre |-> Pre]

Room(r) == Len(self.warnings) + Len(r.warnings) + 1 <= MaxWarn

Construct(family, d) ==
    IF family \notin implemented_fams
    THEN Apply(Raise(self, heap, "ValueError"), "__init__", DefaultArgs, NoR, family)
    ELSE Apply(Return(__init__(family, "caller"), [caller |-> d, model |-> d], "Lmer"),
               "__init__", DefaultArgs, NoR, family)

Fit(a, r) ==
    /\ Room(r)
    /\ Apply(fit(self, heap, a, r), "fit", a, r, "")

Anova(force_orthogonal, r) ==
    /\ Room(r)
    /\ Apply(anova(self, heap, force_orthogonal, r), "anova",
             IF force_orthogonal /\ self.factors # NoDict
             THEN refit_args(self, heap) ELSE DefaultArgs,
             r, IF force_orthogonal THEN "force_orthogonal" ELSE "")

Summary == Apply(summary(self, heap), "summary", DefaultArgs, NoR, "")

PostHoc(marginal_vars, grouping_vars, r) ==
    Apply(post_hoc(self, heap, marginal_vars, grouping_vars, r), "post_hoc", DefaultArgs, r,
          marginal_vars)

PlotSummary(orient) ==
    Apply(plot_summary(self, heap, orient), "plot_summary", DefaultArgs, NoR, orient)

Plot(param) == Apply(plot(self, heap, param), "plot", DefaultArgs, NoR, param)

InitWith(families, frames) ==
    \E family \in families, d \in frames :
        /\ self = __init__(family, "caller")
        /\ heap = [caller |-> d, model |-> d]
        /\ given = d
        /\ last = [op |-> "__init__", a |-> DefaultArgs, r |-> NoR, x |-> family, exc |-> "",
                   ret |-> "Lmer", pre |-> [fitted |-> FALSE]]

(***************************************************************************)
(* Inputs                                                                  *)
(***************************************************************************)
\* factors={"x": ["2", "10"]}: dummy coding with "2" as the reference level
FactorsX == [k \in {"x"} |-> <<Str(2), Str(10)>>]

RankChoices ==
    {[rank |-> FALSE, group |-> "", exclude |-> <<>>],
     [rank |-> TRUE, group |-> "", exclude |-> <<>>],
     [rank |-> TRUE, group |-> Group, exclude |-> <<>>],
     [rank |-> TRUE, group |-> Group, exclude |-> <<"x">>]}

OptimizerChoices ==
    {[old |-> FALSE, control |-> ""],
     [old |-> TRUE, control |-> ""],
     [old |-> TRUE, control |-> "optimizer='Nelder_Mead'"]}

ROk == [NoR EXCEPT !.rows = <<RowA>>]

(***************************************************************************)
(* Spec: the life cycle of a model.  Every public call, fits with valid    *)
(* and invalid arguments, R fits that succeed or raise.                    *)
(***************************************************************************)
LifeArgs ==
    {[DefaultArgs EXCEPT !.factors = f, !.permute = p, !.rank = rank] :
        f \in {NoDict, FactorsX}, p \in {PyFalse, PyTrue}, rank \in BOOLEAN}

LifeEnv == {[ROk EXCEPT !.fail = f] : f \in {"", "model", "confint"}}

Init == InitWith({"gaussian"}, {FrameA})

Next ==
    \/ \E family \in {"gaussian", "weibull"} : Construct(family, FrameA)
    \/ \E a \in LifeArgs, r \in LifeEnv : Fit(a, r)
    \/ \E force_orthogonal \in BOOLEAN, r \in LifeEnv : Anova(force_orthogonal, r)
    \/ Summary
    \/ \E marginal_vars \in {"", "x"}, r \in {ROk, [ROk EXCEPT !.fail = "emmeans"]} :
          PostHoc(marginal_vars, "", r)
    \/ \E orient \in {"v", "x"} : PlotSummary(orient)
    \/ Plot("x")

Spec == Init /\ [][Next]_vars

(***************************************************************************)
(* SpecArgs: fit() called with every combination of the arguments it       *)
(* validates.                                                              *)
(***************************************************************************)
GuardArgs ==
    {[DefaultArgs EXCEPT !.factors = f, !.permute = p, !.rank = rk.rank,
                         !.rank_group = rk.group, !.rank_exclude_cols = rk.exclude,
                         !.control = oc.control, !.old_optimizer = oc.old] :
        f \in {NoDict, FactorsX}, p \in {PyFalse, PyTrue},
        rk \in {c \in RankChoices : c.exclude = <<>>}, oc \in OptimizerChoices}

GuardEnv == {[ROk EXCEPT !.fail = f] : f \in {"", "model"}}

NextArgs ==
    \/ Construct("gaussian", FrameA)
    \/ \E a \in GuardArgs, r \in GuardEnv : Fit(a, r)

SpecArgs == Init /\ [][NextArgs]_vars

(***************************************************************************)
(* SpecWarn: fits whose R optimizer does or does not warn, with and        *)
(* without factors and rank conversion.                                    *)
(***************************************************************************)
WarnArgs ==
    {[DefaultArgs EXCEPT !.factors = f, !.rank = rk.rank, !.rank_group = rk.group,
                         !.rank_exclude_cols = rk.exclude, !.no_warnings = nw] :
        f \in {NoDict, FactorsX}, rk \in RankChoices, nw \in BOOLEAN}

WarnEnv ==
    {[ROk EXCEPT !.fail = f, !.warnings = w] :
        f \in {"", "model"}, w \in {<<>>, <<"boundary (singular) fit: see ?isSingular">>}}

NextWarn ==
    \/ Construct("gaussian", FrameA)
    \/ \E a \in WarnArgs, r \in WarnEnv : Fit(a, r)

SpecWarn == Init /\ [][NextWarn]_vars

(***************************************************************************)
(* SpecCoef: the coefficient table, for every family, every table R        *)
(* returns for it, each confidence-interval method and each permute value. *)
(***************************************************************************)
RECURSIVE SeqsUpTo(_, _)
SeqsUpTo(S, n) ==
    IF n = 0 THEN {<<>>}
    ELSE LET shorter == SeqsUpTo(S, n - 1)
         IN  shorter \cup {Append(q, e) : q \in shorter, e \in S}

CoefArgs ==
    {[DefaultArgs EXCEPT !.conf_int = ci, !.permute = p] :
        ci \in {"Wald", "boot"},
        p \in {PyFalse, PyNone, PyInt(0), PyInt(1), PyInt(20)}}

\* lmerTest is the only engine that can leave the p-values out; the permuted fits
\* are only run when permute asks for them
CoefEnv(family, a) ==
    {[NoR EXCEPT !.rows = rows, !.choked = ch, !.perm_t = pt] :
        rows \in SeqsUpTo(RowKinds, MaxRows),
        ch \in IF family = "gaussian" THEN BOOLEAN ELSE {FALSE},
        pt \in IF Truthy(a.permute) THEN {0, 10} ELSE {0}}

InitCoef == InitWith(implemented_fams, {FrameA})

NextCoef == \E a \in CoefArgs : \E r \in CoefEnv(self.family, a) : Fit(a, r)

SpecCoef == InitCoef /\ [][NextCoef]_vars

(***************************************************************************)
(* SpecData: the model's data and the caller's frame, for frames with a    *)
(* missing value or a column already called fits, with and without rank    *)
(* conversion and factors.                                                 *)
(***************************************************************************)
DataArgs ==
    {[DefaultArgs EXCEPT !.factors = f, !.rank = rk.rank, !.rank_group = rk.group,
                         !.rank_exclude_cols = rk.exclude] :
        f \in {NoDict, FactorsX}, rk \in RankChoices}

DataEnv == {[ROk EXCEPT !.fail = f] : f \in {"", "model", "ranef"}}

InitData == InitWith({"gaussian"}, Frames)

NextData ==
    \/ \E d \in Frames : Construct("gaussian", d)
    \/ \E a \in DataArgs, r \in DataEnv : Fit(a, r)
    \/ \E force_orthogonal \in BOOLEAN : Anova(force_orthogonal, ROk)

SpecData == InitData /\ [][NextData]_vars

(***************************************************************************)
(* SpecAnova: anova() after fits with every permute, conf_int and REML.    *)
(***************************************************************************)
AnovaArgs ==
    {[DefaultArgs EXCEPT !.factors = f, !.permute = p, !.conf_int = ci, !.REML = reml] :
        f \in {NoDict, FactorsX}, p \in {PyFalse, PyTrue, PyInt(1)},
        ci \in {"Wald", "boot"}, reml \in {PyTrue, PyFalse}}

AnovaEnv == {[ROk EXCEPT !.fail = f] : f \in {"", "model", "anova"}}

NextAnova ==
    \/ \E a \in AnovaArgs, r \in AnovaEnv : Fit(a, r)
    \/ \E force_orthogonal \in BOOLEAN, r \in AnovaEnv : Anova(force_orthogonal, r)

SpecAnova == Init /\ [][NextAnova]_vars

(***************************************************************************)
(* The OLS helpers of pymer4/utils.py: _ols and _robust_estimator.         *)
(* The design matrix has one column (X.shape[1] = 1), so X'X, the bread    *)
(* and the meat are scalars.  A float is held as an exact fraction in      *)
(* lowest terms; NotFinite stands for inf, -inf and nan, which numpy       *)
(* gives for a division by zero and which sums and products keep.  No      *)
(* divisor of these routines is ever NotFinite.  np.sqrt is not computed:  *)
(* a standard error is held as the value it is the square root of.         *)
(***************************************************************************)
MaxLags == 2    \* largest n_lags explored

PyStr(s) == [t |-> "str", v |-> s]
PyArray(s) == [t |-> "ndarray", v |-> s]
\* Python truthiness, strings included
truth(p) == IF p.t = "str" THEN p.v # "" ELSE Truthy(p)

NotFinite == [num |-> 0, den |-> 0]

RECURSIVE Gcd(_, _)
Gcd(a, b) == IF b = 0 THEN a ELSE Gcd(b, a % b)

Float(n, d) ==
    IF d = 0 THEN NotFinite
    ELSE LET g == Gcd(Abs(n), Abs(d))
             s == IF d < 0 THEN -1 ELSE 1
         IN  [num |-> (s * n) \div g, den |-> (s * d) \div g]

Finite(a) == a.den # 0

add(a, b) ==
    IF Finite(a) /\ Finite(b) THEN Float(a.num * b.den + b.num * a.den, a.den * b.den)
    ELSE NotFinite

sub(a, b) ==
    IF Finite(a) /\ Finite(b) THEN Float(a.num * b.den - b.num * a.den, a.den * b.den)
    ELSE NotFinite

mul(a, b) ==
    IF Finite(a) /\ Finite(b) THEN Float(a.num * b.num, a.den * b.den) ELSE NotFinite

\* numpy's division: a zero divisor gives inf or nan and a RuntimeWarning, no exception
div(a, b) ==
    IF Finite(a) /\ Finite(b) THEN Float(a.num * b.den, a.den * b.num) ELSE NotFinite

RECURSIVE Sum(_)
Sum(v) == IF v = <<>> THEN Float(0, 1) ELSE add(Head(v), Sum(Tail(v)))

\* np.dot of two vectors
dot(u, v) == Sum([i \in DOMAIN u |-> mul(u[i], v[i])])

\* np.dot(np.dot(A.T, V), B) for one-column A and B and a square V
sandwich(A, V, B) ==
    Sum([i \in DOMAIN A |-> Sum([j \in DOMAIN B |-> mul(mul(A[i], V[i][j]), B[j])])])

\* np.diag of a vector
diag(v) == [i \in DOMAIN v |-> [j \in DOMAIN v |-> IF i = j THEN v[i] ELSE Float(0, 1)]]

\* np.linalg.pinv of a 1 x 1 matrix
pinv(s) == IF s = Float(0, 1) THEN Float(0, 1) ELSE div(Float(1, 1), s)

\* a[l:] and a[:-l] for l >= 1
From(a, l) == SubSeq(a, l + 1, Len(a))
Upto(a, l) == SubSeq(a, 1, Len(a) - l)

\* the values robust_estimator is asserted to be one of, lines 103-110
offered == <<"hc0", "hc1", "hc2", "hc3", "hac", "cluster">>

\* what a call of _robust_estimator did: the steps it computed, in order,
\* and the weighting branches it entered
NotCalled == [called |-> FALSE, steps |-> <<>>, weighting |-> <<>>]
Did(steps, weighting) == [called |-> TRUE, steps |-> steps, weighting |-> weighting]

\* lines 120-135: the cluster-robust meat
cluster_meat(vals, X, cluster) ==
    LET n == Len(X)
        u == [i \in DOMAIN X |-> mul(vals[i], X[i])]
        grps == SeqToSet(cluster.v)
        \* u.groupby("Group").sum()
        u_clust == [g \in grps |->
                       Sum([i \in DOMAIN u |->
                               IF cluster.v[i] = g THEN u[i] ELSE Float(0, 1)])]
        num_grps == Cardinality(grps)
        ids == CHOOSE s \in [1..num_grps -> grps] : \A g \in grps : \E i \in 1..num_grps : s[i] = g
        ss == Sum([i \in 1..num_grps |-> mul(u_clust[ids[i]], u_clust[ids[i]])])
    IN  IF cluster.t = "NoneType" THEN [exc |-> "ValueError", meat |-> NotFinite]
        ELSE IF num_grps - 1 = 0 \/ n - 1 = 0
        THEN [exc |-> "ZeroDivisionError", meat |-> NotFinite]
        ELSE [exc |-> "",
              meat |-> mul(mul(Float(num_grps, num_grps - 1), Float(n, n - 1)), ss)]

\* lines 138-152: the Newey-West meat, lag 0 and then the loop over lags 1..n_lags
RECURSIVE hac_lags(_, _, _, _, _)
hac_lags(vals, X, n_lags, l, meat) ==
    IF l > n_lags THEN meat
    ELSE LET V == diag([i \in 1..Len(From(vals, l)) |->
                           mul(From(vals, l)[i], Upto(vals, l)[i])])
             meat_1 == sandwich(From(X, l), V, Upto(X, l))
             meat_2 == sandwich(Upto(X, l), V, From(X, l))
             w == Float(n_lags + 1 - l, n_lags + 1)
         IN  hac_lags(vals, X, n_lags, l + 1, add(meat, mul(w, add(meat_1, meat_2))))

hac_meat(vals, X, n_lags) ==
    LET V == diag([i \in DOMAIN vals |-> mul(vals[i], vals[i])])
        w0 == Float(n_lags + 1, n_lags + 1)
    IN  hac_lags(vals, X, n_lags, 1, mul(w0, sandwich(X, V, X)))

\* lines 154-174: the estimators that reweight V = diag(vals ** 2); which is the
\* inner branch taken, "" when the if/elif chain matches none
hc_which(robust_estimator) ==
    IF robust_estimator = PyStr("hc0") THEN "hc0"
    ELSE IF robust_estimator = PyStr("hc1") THEN "hc1"
    ELSE IF robust_estimator = PyStr("hc2") THEN "hc2"
    ELSE IF robust_estimator = PyStr("hc3") THEN "hc3"
    ELSE ""

hc_meat(vals, X, bread, which) ==
    LET n == Len(X)
        V0 == diag([i \in DOMAIN vals |-> mul(vals[i], vals[i])])
        \* 1 - np.diag(np.dot(X, np.dot(bread, X.T)))
        lev == [j \in DOMAIN X |-> sub(Float(1, 1), mul(mul(X[j], bread), X[j]))]
        V == IF which = "hc1"
             THEN [i \in DOMAIN V0 |-> [j \in DOMAIN V0 |->
                      div(mul(V0[i][j], Float(n, 1)), Float(n - 1, 1))]]
             ELSE IF which = "hc2"
             THEN [i \in DOMAIN V0 |-> [j \in DOMAIN V0 |-> div(V0[i][j], lev[j])]]
             ELSE IF which = "hc3"
             THEN [i \in DOMAIN V0 |-> [j \in DOMAIN V0 |->
                      div(V0[i][j], mul(lev[j], lev[j]))]]
             ELSE V0
    IN  sandwich(X, V, X)

\* lines 112-178: the sandwich, once the assertion has passed
sandwich_estimate(vals, X, robust_estimator, n_lags, cluster) ==
    LET bread == pinv(dot(X, X))
        vcv(meat) == mul(mul(bread, meat), bread)
    IN  IF robust_estimator = PyStr("cluster")
        THEN LET m == cluster_meat(vals, X, cluster)
             IN  IF m.exc # ""
                 THEN [exc |-> m.exc, ret |-> "nothing",
                       did |-> Did(<<"bread">>, <<"cluster">>)]
                 ELSE [exc |-> "", ret |-> vcv(m.meat),
                       did |-> Did(<<"bread", "meat", "vcv">>, <<"cluster">>)]
        ELSE IF robust_estimator = PyStr("hac")
        THEN [exc |-> "", ret |-> vcv(hac_meat(vals, X, n_lags)),
              did |-> Did(<<"bread", "meat", "vcv">>, <<"hac">>)]
        ELSE LET which == hc_which(robust_estimator)
             IN  [exc |-> "", ret |-> vcv(hc_meat(vals, X, bread, which)),
                  did |-> Did(<<"bread", "meat", "vcv">>,
                              IF which = "" THEN <<>> ELSE <<which>>)]

\* _robust_estimator without its assertion
_robust_estimator_unasserted(vals, X, robust_estimator, n_lags, cluster) ==
    sandwich_estimate(vals, X, robust_estimator, n_lags, cluster)

\* utils.py lines 81-178
_robust_estimator(vals, X, robust_estimator, n_lags, cluster) ==
    IF ~(robust_estimator.t = "str" /\ Contains(offered, robust_estimator.v))
    THEN [exc |-> "AssertionError", ret |-> "nothing", did |-> Did(<<>>, <<>>)]
    ELSE sandwich_estimate(vals, X, robust_estimator, n_lags, cluster)

\* utils.py lines 201-240, called with weights=None
_ols(x, y, robust, n_lags, cluster, all_stats, resid_only) ==
    IF all_stats /\ resid_only
    THEN [exc |-> "ValueError", ret |-> "nothing", did |-> NotCalled]
    ELSE LET X == [i \in DOMAIN x |-> Float(x[i], 1)]
             Y == [i \in DOMAIN y |-> Float(y[i], 1)]
             n == Len(X)
             b == mul(pinv(dot(X, X)), dot(X, Y))
             res == [i \in DOMAIN X |-> sub(Y[i], mul(X[i], b))]
         IN  IF all_stats
             THEN IF truth(robust)
                  THEN LET se == _robust_estimator(res, X, robust, n_lags, cluster)
                       IN  IF se.exc # "" THEN se
                           ELSE [exc |-> "",
                                 ret |-> [b |-> b, se |-> se.ret, t |-> <<b, se.ret>>,
                                          res |-> res],
                                 did |-> se.did]
                  ELSE LET sigma == div(dot(res, res), Float(n - 1, 1))
                           se == mul(pinv(dot(X, X)), sigma)
                       IN  [exc |-> "",
                            ret |-> [b |-> b, se |-> se, t |-> <<b, se>>, res |-> res],
                            did |-> NotCalled]
             ELSE IF resid_only
             THEN [exc |-> "", ret |-> [res |-> res], did |-> NotCalled]
             ELSE [exc |-> "", ret |-> [b |-> b], did |-> NotCalled]

Ols(a) ==
    LET res == _ols(a.x, a.y, a.robust, a.n_lags, a.cluster, a.all_stats, a.resid_only)
    IN  Apply([self |-> self, heap |-> heap, exc |-> res.exc, ret |-> res.ret],
              "_ols", a, NoR, res.did)

(***************************************************************************)
(* SpecOls: _ols called on small regressions with every robust value,      *)
(* offered or not.                                                         *)
(***************************************************************************)
\* the regressions: a design column x and an outcome y
Regressions ==
    {[x |-> <<1, 1>>, y |-> <<1, 3>>],
     [x |-> <<1, 2>>, y |-> <<2, 1>>],
     [x |-> <<1, 1, 1>>, y |-> <<0, 1, 2>>],
     [x |-> <<0, 0>>, y |-> <<1, 2>>],
     [x |-> <<2>>, y |-> <<1>>]}

RobustChoices ==
    {PyNone, PyFalse, PyTrue, PyStr("")}
      \cup {PyStr(offered[i]) : i \in DOMAIN offered}
      \cup {PyStr("hc4"), PyStr("HC0"), PyStr("white")}

\* cluster ids for a regression of n rows: none, one cluster, a cluster per row
ClusterChoices(n) == {PyNone, PyArray([i \in 1..n |-> 1]), PyArray([i \in 1..n |-> i])}

OlsArgs ==
    {[x |-> d.x, y |-> d.y, robust |-> robust, n_lags |-> n_lags, cluster |-> cluster,
      all_stats |-> all_stats, resid_only |-> resid_only] :
        d \in Regressions, robust \in RobustChoices, n_lags \in 0..MaxLags,
        cluster \in UNION {ClusterChoices(n) : n \in 1..3},
        all_stats \in BOOLEAN, resid_only \in BOOLEAN}

\* n_lags is read by 'hac' only and cluster by 'cluster' only: the other
\* estimators are called with the values _chunk_perm_ols would pass by default
OlsCalls ==
    {a \in OlsArgs :
        /\ (a.cluster.t = "ndarray" => Len(a.cluster.v) = Len(a.x))
        /\ (a.robust # PyStr("hac") => a.n_lags = 1)
        /\ (a.robust # PyStr("cluster") => a.cluster = PyNone)
        /\ (~a.all_stats => a.robust = PyNone)}

NextOls == \E a \in OlsCalls : Ols(a)

SpecOls == Init /\ [][NextOls]_vars

(***************************************************************************)
(* Properties                                                              *)
(***************************************************************************)
NeedsFit(l) ==
    l.op \in {"summary", "plot", "plot_summary"} \/ (l.op = "post_hoc" /\ l.x # "")

\* C1: summary(), post_hoc() with non-empty marginal_vars, plot() and plot_summary(),
\* called on a model whose fitted flag is False, raise RuntimeError and return nothing,
\* whatever constructor and failed fit calls came before.
C1_UnfittedCallsRaise ==
    (NeedsFit(last) /\ ~last.pre.fitted) =>
        (last.exc = "RuntimeError" /\ last.ret = "nothing" /\ ~self.fitted)

\* plot() on a model that a failed fit left unfitted, with factors and an R model object
C1_Witness ==
    /\ last.op = "plot"
    /\ ~last.pre.fitted
    /\ self.factors # NoDict
    /\ self.model_obj # NoneObj
    /\ last.exc = "RuntimeError"

\* C2: a non-empty factors attribute implies fitted, so anova() on an unfitted model
\* raises ValueError, also after fit calls that raised.
C2_FactorsImplyFitted ==
    /\ self.factors # NoDict => self.fitted
    /\ (last.op = "anova" /\ ~last.pre.fitted) => last.exc = "ValueError"

\* the invalid arguments of fit() and the exception each is rejected with
Rejected(a) ==
    \/ a.permute = PyTrue
    \/ a.old_optimizer /\ a.control # ""
    \/ a.rank /\ a.rank_group = ""

RejectedWith(a) == IF a.permute = PyTrue THEN "TypeError" ELSE "ValueError"

\* C3: fit() with permute=True, with old_optimizer=True and a control string, or with
\* rank=True and no rank_group raises (TypeError, ValueError, ValueError) and leaves
\* fitted, model_obj, coefs, factors and warnings as they were before the call.
C3_RejectedFitKeepsState ==
    [][(last'.op = "fit" /\ Rejected(last'.a)) =>
          /\ last'.exc = RejectedWith(last'.a)
          /\ self'.fitted = self.fitted
          /\ self'.model_obj = self.model_obj
          /\ self'.coefs = self.coefs
          /\ self'.factors = self.factors
          /\ self'.warnings = self.warnings]_vars

\* the warnings one fit() produces: R's, and the Python one about factors and ranks
Produced(a, r) ==
    SeqToSet(r.warnings)
      \cup IF a.rank /\ a.factors # NoDict /\ DOMAIN a.factors # SeqToSet(a.rank_exclude_cols)
           THEN {FactorRankWarning} ELSE {}

\* C4: after fit() completes, every warning produced during that fit (R's optimizer
\* warnings and messages, and the Python warning about factors and ranks) is an element
\* of model.warnings, whether or not no_warnings is set.
C4_WarningsAlwaysStored ==
    (last.op = "fit" /\ last.exc = "") =>
        \A w \in Produced(last.a, last.r) : Contains(self.warnings, w)

\* a completed fit() that reached the coefficient table with at least one fixed effect
FitWithCoefs == last.op = "fit" /\ last.exc = "" /\ last.r.rows # <<>>

\* C5: with conf_int='boot' and the default permute, coefs has no 'P-val' and no 'DF'
\* column and Sig is '*' exactly where 2.5_ci and 97.5_ci have the same sign.
C5_BootDropsParametric ==
    (FitWithCoefs /\ last.a.conf_int = "boot" /\ last.a.permute = DefaultArgs.permute) =>
        /\ ~THas(self.coefs, "P-val")
        /\ ~THas(self.coefs, "DF")
        /\ THas(self.coefs, "Sig")
        /\ \A i \in DOMAIN self.coefs.data :
              TCol(self.coefs, "Sig")[i] =
                 IF TCol(self.coefs, "2.5_ci")[i] * TCol(self.coefs, "97.5_ci")[i] > 0
                 THEN "*" ELSE ""

\* C6: with permute a non-zero integer N, a fit that reaches the coefficient stage with
\* at least one fixed effect ends, for every family and column layout, with coefs holding
\* 'Perm-P-val' and 'Num_perm' (all N), neither 'P-val' nor 'DF', and Sig from 'Perm-P-val'.
C6_PermutationColumns ==
    (last.op = "fit" /\ last.a.permute.t = "int" /\ last.a.permute.v # 0
        /\ last.r.fail = "" /\ last.r.rows # <<>>) =>
        /\ last.exc = ""
        /\ THas(self.coefs, "Perm-P-val")
        /\ THas(self.coefs, "Num_perm")
        /\ ~THas(self.coefs, "P-val")
        /\ ~THas(self.coefs, "DF")
        /\ THas(self.coefs, "Sig")
        /\ \A i \in DOMAIN self.coefs.data :
              /\ TCol(self.coefs, "Num_perm")[i] = last.a.permute.v
              /\ TCol(self.coefs, "Sig")[i] = _sig_stars(TCol(self.coefs, "Perm-P-val")[i])

\* the column order C7 states for each family
Layout(family) ==
    IF family = "gaussian"
    THEN <<"Estimate", "2.5_ci", "97.5_ci", "SE", "DF", "T-stat", "P-val">>
    ELSE IF family \in {"gamma", "inverse_gaussian"}
    THEN <<"Estimate", "2.5_ci", "97.5_ci", "SE", "T-stat", "P-val">>
    ELSE IF family = "poisson"
    THEN <<"Estimate", "2.5_ci", "97.5_ci", "SE", "Z-stat", "P-val">>
    ELSE <<"Estimate", "2.5_ci", "97.5_ci", "SE", "OR", "OR_2.5_ci", "OR_97.5_ci",
           "Prob", "Prob_2.5_ci", "Prob_97.5_ci", "Z-stat", "P-val">>

\* the R column each pymer4 column is a renaming of
RName(c) ==
    CASE c = "SE" -> "Std..Error"
      [] c = "DF" -> "df"
      [] c = "T-stat" -> "t.value"
      [] c = "Z-stat" -> "z.value"
      [] c = "2.5_ci" -> "X2.5.."
      [] c = "97.5_ci" -> "X97.5.."
      [] OTHER -> c

RPval(family) == IF family \in {"poisson", "binomial"} THEN "Pr...z.." ELSE "Pr...t.."

\* coefs is R's table renamed and reordered, with Sig appended
RenamedOnly(family, r, coefs) ==
    /\ coefs.columns = Append(Layout(family), "Sig")
    /\ Len(Layout(family)) = Len(RColumns(family, r.choked))
    /\ \A j \in DOMAIN Layout(family) :
          TCol(coefs, Layout(family)[j]) =
             TCol(ROut(family, r),
                  IF Layout(family)[j] = "P-val" THEN RPval(family)
                  ELSE RName(Layout(family)[j]))
    /\ \A i \in DOMAIN coefs.data :
          TCol(coefs, "Sig")[i] = _sig_stars(TCol(coefs, "P-val")[i])

\* a fit without permutation of one of the layouts C7 lists
ListedLayoutFit == FitWithCoefs /\ ~Truthy(last.a.permute) /\ ~last.r.choked

Kept(names) == {c \in SeqToSet(given.columns) : c \notin names}

\* after a successful fit the model's data has the original columns, those in skip aside,
\* with unchanged values, plus residuals and fits (or no added column when R's vectors
\* are shorter than the data), and the caller's frame is as it was passed
DataAfterFit(skip) ==
    /\ heap.caller = given
    /\ (last.op = "fit" /\ last.exc = "") =>
          LET d == heap[self.data]
          IN  /\ \A c \in Kept(skip) : HasCol(d, c) /\ Col(d, c) = Col(given, c)
              /\ d.strcols = given.strcols
              /\ SeqToSet(d.columns) =
                    SeqToSet(given.columns)
                      \cup IF Cardinality(CompleteRows(given)) = NumRows(given)
                           THEN {"residuals", "fits"} ELSE {}

\* C8 as stated: fit() changes only the model's copy of the data, where every original
\* column keeps its values and residuals and fits are added (nothing is added when R's
\* vectors have another length); the caller's DataFrame is never modified.
C8_OnlyAddsColumns == DataAfterFit({})

\* C8 amended: the same for every original column not itself named residuals or fits.
C8_OnlyWritesResidualsAndFits == DataAfterFit({"residuals", "fits"})

\* a second successful fit, with factors, on a frame that came with a fits column
C8_Witness ==
    /\ last.op = "fit" /\ last.exc = "" /\ last.pre.fitted
    /\ last.a.factors # NoDict
    /\ given = FrameFits
    /\ HasCol(heap[self.data], "residuals")
    /\ Col(heap[self.data], "fits") # Col(given, "fits")

\* C9: with rank=True only the data handed to R is converted to ranks by group; the
\* model's data keeps the original values of every column of the formula.
C9_RanksOnlyForR ==
    (last.op = "fit" /\ last.a.rank) =>
        /\ \A c \in {DV} \cup SeqToSet(Predictors) :
              Col(heap[self.data], c) = Col(given, c)
        /\ last.exc = "" =>
              \A c \in SeqToSet(ToRank(last.a.rank_exclude_cols)) :
                 \A i \in 1..NumRows(given) :
                    Col(self.model_obj.dat, c)[i] =
                       GroupRank(Col(given, c), Col(given, last.a.rank_group), i)

\* a second fit with rank=True whose ranks differ from the values they rank
C9_Witness ==
    /\ last.op = "fit" /\ last.a.rank /\ last.exc = "" /\ last.pre.fitted
    /\ Col(self.model_obj.dat, "x") # Col(given, "x")
    /\ Col(heap[self.data], "x") = Col(given, "x")

\* the factor levels _refit_orthogonal derives from a data column
SortedLevels(col) == sorted([i \in DOMAIN unique(col) |-> Str(unique(col)[i])])

\* C10: anova(force_orthogonal=True) on a model with factors F leaves factors_prev_ equal
\* to the factors it found, factors mapping each key of F to the sorted string levels of
\* its data column, and refits with the permute, conf_int and REML of the last fit call.
C10_RefitOrthogonal ==
    [][(last'.op = "anova" /\ last'.x = "force_orthogonal" /\ self.factors # NoDict) =>
          /\ self'.factors_prev_ = self.factors
          /\ DOMAIN self'.factors = DOMAIN self.factors
          /\ \A k \in DOMAIN self.factors :
                self'.factors[k] = SortedLevels(Col(heap[self.data], k))
          /\ last'.a.ordered
          /\ last'.a.permute = self._permute
          /\ last'.a.conf_int = self._conf_int
          /\ last'.a.REML = self._REML]_vars

(***************************************************************************)
(* _robust_estimator                                                       *)
(***************************************************************************)
\* the last call was an _ols that asked for statistics with robust set
RobustAsked ==
    /\ last.op = "_ols"
    /\ last.a.all_stats /\ ~last.a.resid_only
    /\ truth(last.a.robust)

\* the robust estimator accepts exactly the values of S and enters, for each,
\* the one branch of that name; any other value fails the assertion before
\* the bread or anything else is computed
SelectsOneOf(S) ==
    RobustAsked =>
        /\ last.x.called
        /\ IF last.a.robust.t = "str" /\ last.a.robust.v \in S
           THEN /\ last.exc # "AssertionError"
                /\ last.x.steps # <<>>
                /\ last.x.weighting = <<last.a.robust.v>>
           ELSE /\ last.exc = "AssertionError"
                /\ last.ret = "nothing"
                /\ last.x.steps = <<>>
                /\ last.x.weighting = <<>>

\* C11 as stated: _robust_estimator, reached from _ols when robust is set,
\* applies one of the five weightings hc0, hc1, hc2, hc3, hac; every other
\* robust_estimator value fails the assertion before any computation, and
\* each accepted value selects exactly one weighting branch.
C11_FiveWeightings == SelectsOneOf({"hc0", "hc1", "hc2", "hc3", "hac"})

\* C11 amended: the accepted values are the six of the assertion, the five
\* above and 'cluster'; every other value fails the assertion before any
\* computation, and each accepted value selects exactly the branch of its name.
C11_SixWeightings == SelectsOneOf(SeqToSet(offered))

\* an accepted estimator was applied and gave a finite, positive variance
C11_Witness ==
    /\ RobustAsked
    /\ last.a.robust = PyStr("hc3")
    /\ last.exc = ""
    /\ last.x.weighting = <<"hc3">>
    /\ Finite(last.ret.se) /\ last.ret.se.num > 0

====
